---- MODULE Spec2Model ----
(* Level-ordered folding of a flat bill-of-materials table into a forest *)
(* (bom_fold/src/transform/ordered_level_key.rs), over the Value type of  *)
(* bom_fold/src/transform/data.rs, and the materialization of a forest in *)
(* the item sync format (bom_fold/src/materialize/mod.rs).                *)
(*                                                                        *)
(* Encoding: a string that is compared (Value::Text) is the sequence of   *)
(* its bytes; an f64 is a record [nan, val] with val in tenths; a Node's  *)
(* `attributes: &[Value]` borrow is the 1-based position of the borrowed  *)
(* row in flat_data.records; positions returned by `position` are 1-based *)
(* (0 stands for None).                                                   *)
EXTENDS Integers, Sequences, FiniteSets, TLC

VARIABLES flat_data, level_key, pc, level_key_index, record_index,
          working_node_stack, top_level_nodes, result, stack_after_push,
          folded_data, rules, indices, pending, boms, bom_entries, formatted

(* the state of format_item_sync *)
format_vars == <<folded_data, rules, indices, pending, boms, bom_entries,
                 formatted>>

(* the state of fold; stack_after_push is a history variable, not a    *)
(* variable of the program: its i-th element is the records on the     *)
(* working stack, bottom first, right after record i was pushed        *)
fold_vars == <<level_key, level_key_index, record_index,
               working_node_stack, top_level_nodes, result, stack_after_push>>

vars == <<flat_data, level_key, pc, level_key_index, record_index,
          working_node_stack, top_level_nodes, result, stack_after_push,
          folded_data, rules, indices, pending, boms, bom_entries, formatted>>

(* ---------------------------------------------------------------- *)
(* Bounds                                                           *)
(* ---------------------------------------------------------------- *)

MaxRecords ==
  3

(* ---------------------------------------------------------------- *)
(* Value (data.rs)                                                  *)
(* ---------------------------------------------------------------- *)

F64(n) ==
  [nan |-> FALSE, val |-> n]

NaN ==
  [nan |-> TRUE, val |-> 0]

Text(s) ==
  [type |-> "Text", text |-> s]

Number(f) ==
  [type |-> "Number", number |-> f]

(* str::cmp: bytewise lexicographic order *)
RECURSIVE str_cmp(_, _)
str_cmp(a, b) ==
  IF a = <<>> /\ b = <<>> THEN "Equal"
  ELSE IF a = <<>> THEN "Less"
  ELSE IF b = <<>> THEN "Greater"
  ELSE IF Head(a) < Head(b) THEN "Less"
  ELSE IF Head(a) > Head(b) THEN "Greater"
  ELSE str_cmp(Tail(a), Tail(b))

(* f64::partial_cmp: no relation when either side is NaN *)
f64_partial_cmp(a, b) ==
  IF a.nan \/ b.nan THEN "None"
  ELSE IF a.val < b.val THEN "Less"
  ELSE IF a.val > b.val THEN "Greater"
  ELSE "Equal"

(* position of a variant in the enum declaration: Text, then Number *)
discriminant(v) ==
  IF v.type = "Text" THEN 0 ELSE 1

(* a comparison under which values of different variants are unrelated *)
partial_cmp_unrelated_variants(a, b) ==
  IF a.type = "Text" /\ b.type = "Text" THEN str_cmp(a.text, b.text)
  ELSE IF a.type = "Number" /\ b.type = "Number"
       THEN f64_partial_cmp(a.number, b.number)
  ELSE "None"

(* #[derive(PartialOrd)] on Value: same variant compares the payloads, *)
(* different variants compare by declaration order                     *)
partial_cmp(a, b) ==
  IF a.type = "Text" /\ b.type = "Text" THEN str_cmp(a.text, b.text)
  ELSE IF a.type = "Number" /\ b.type = "Number"
       THEN f64_partial_cmp(a.number, b.number)
  ELSE IF discriminant(a) < discriminant(b) THEN "Less"
  ELSE "Greater"

(* #[derive(PartialEq)] on Value: NaN is not equal to itself *)
value_eq(a, b) ==
  /\ a.type = b.type
  /\ IF a.type = "Text" THEN a.text = b.text
     ELSE ~a.number.nan /\ ~b.number.nan /\ a.number.val = b.number.val

(* ---------------------------------------------------------------- *)
(* Node, FoldedData (data.rs) and LevelNode                         *)
(* ---------------------------------------------------------------- *)

Node(attributes, children) ==
  [attributes |-> attributes, children |-> children]

LevelNode(level, node) ==
  [level |-> level, node |-> node]

FoldedData_no_keys(top, keys) ==
  [attribute_keys |-> <<>>, top_level_nodes |-> top]

FoldedData(top, keys) ==
  [attribute_keys |-> keys, top_level_nodes |-> top]

FoldedData_default ==
  [attribute_keys |-> <<>>, top_level_nodes |-> <<>>]

Ok(v) ==
  [kind |-> "Ok", value |-> v]

Err(code) ==
  [kind |-> "Err", code |-> code]

Panic ==
  [kind |-> "Panic"]

Pending ==
  [kind |-> "Pending"]

(* Option *)
None ==
  [some |-> FALSE]

Some(v) ==
  [some |-> TRUE, value |-> v]

(* ---------------------------------------------------------------- *)
(* fold and its helpers (ordered_level_key.rs)                      *)
(* ---------------------------------------------------------------- *)

is_empty_records_only(records, keys) ==
  records = <<>>

(* the guard of the early return *)
is_empty(records, keys) ==
  records = <<>> \/ keys = <<>>

position_or_first(keys, key) ==
  IF \E i \in 1..Len(keys) : keys[i] = key
  THEN CHOOSE i \in 1..Len(keys) :
         keys[i] = key /\ \A j \in 1..(i - 1) : keys[j] # key
  ELSE 1

(* keys.iter().position(|item| item == key); 0 is None *)
position(keys, key) ==
  IF \E i \in 1..Len(keys) : keys[i] = key
  THEN CHOOSE i \in 1..Len(keys) :
         keys[i] = key /\ \A j \in 1..(i - 1) : keys[j] # key
  ELSE 0

finalize_working_node_orphan(stack, tops) ==
  IF stack = <<>> THEN [stack |-> stack, tops |-> tops]
  ELSE [stack |-> SubSeq(stack, 1, Len(stack) - 1),
        tops |-> Append(tops, stack[Len(stack)].node)]

finalize_working_node_prepend(stack, tops) ==
  IF stack = <<>> THEN [stack |-> stack, tops |-> tops]
  ELSE LET popped == stack[Len(stack)]
           rest == SubSeq(stack, 1, Len(stack) - 1)
       IN IF rest # <<>>
          THEN LET parent == rest[Len(rest)]
               IN [stack |-> [rest EXCEPT ![Len(rest)] =
                                LevelNode(parent.level,
                                  Node(parent.node.attributes,
                                       <<popped.node>> \o parent.node.children))],
                   tops |-> tops]
          ELSE [stack |-> rest, tops |-> <<popped.node>> \o tops]

(* pop the top node and append it to its parent's children, or to the *)
(* top level nodes when no parent is open                             *)
finalize_working_node(stack, tops) ==
  IF stack = <<>> THEN [stack |-> stack, tops |-> tops]
  ELSE LET popped == stack[Len(stack)]
           rest == SubSeq(stack, 1, Len(stack) - 1)
       IN IF rest # <<>>
          THEN LET parent == rest[Len(rest)]
               IN [stack |-> [rest EXCEPT ![Len(rest)] =
                                LevelNode(parent.level,
                                  Node(parent.node.attributes,
                                       Append(parent.node.children, popped.node)))],
                   tops |-> tops]
          ELSE [stack |-> rest, tops |-> Append(tops, popped.node)]

is_done_greater_only(ordering) ==
  ordering = "Greater"

is_done_unless_unrelated(ordering) ==
  ordering \in {"Greater", "Equal", "Less"}

(* the match arms of unwind_working_stack that finalize the working node *)
is_done(ordering) ==
  ordering \in {"Greater", "Equal"}

RECURSIVE unwind_working_stack(_, _, _)
unwind_working_stack(stack, tops, current_record_level) ==
  IF stack = <<>> THEN [stack |-> stack, tops |-> tops]
  ELSE IF is_done(partial_cmp(stack[Len(stack)].level, current_record_level))
       THEN LET f == finalize_working_node(stack, tops)
            IN unwind_working_stack(f.stack, f.tops, current_record_level)
       ELSE [stack |-> stack, tops |-> tops]

unwind_working_stack_unconditionally_once(stack, tops) ==
  finalize_working_node(stack, tops)

RECURSIVE unwind_working_stack_unconditionally(_, _)
unwind_working_stack_unconditionally(stack, tops) ==
  IF stack = <<>> THEN [stack |-> stack, tops |-> tops]
  ELSE LET f == finalize_working_node(stack, tops)
       IN unwind_working_stack_unconditionally(f.stack, f.tops)

(* ---------------------------------------------------------------- *)
(* Inputs                                                           *)
(* ---------------------------------------------------------------- *)

(* "1", "1.1", "1.2", "foo" as bytes *)
str_1 ==
  <<49>>

str_1_1 ==
  <<49, 46, 49>>

str_1_2 ==
  <<49, 46, 50>>

str_foo ==
  <<102, 111, 111>>

TextLevels ==
  {Text(str_1), Text(str_1_1), Text(str_1_2)}

NumberLevels ==
  {Number(F64(10)), Number(F64(11)), Number(F64(12))}

LevelValues ==
  TextLevels \cup {Number(F64(10)), Number(F64(11)), Number(NaN)}

KeyLists ==
  {<<>>, <<"level", "foo">>, <<"foo", "level">>}

LevelKeys ==
  {"level", "depth"}

(* the cells a column may hold *)
Cells(key) ==
  IF key = "level" THEN LevelValues ELSE {Text(str_foo)}

(* rows of every length up to the number of keys (ragged rows included) *)
RECURSIVE Rows(_)
Rows(keys) ==
  IF keys = <<>> THEN {<<>>}
  ELSE LET shorter == Rows(SubSeq(keys, 1, Len(keys) - 1))
       IN shorter \cup { Append(r, c) :
                           r \in { q \in shorter : Len(q) = Len(keys) - 1 },
                           c \in Cells(keys[Len(keys)]) }

Tables(keys) ==
  LET rows == Rows(keys)
  IN UNION { [keys : {keys}, records : [1..n -> rows]] : n \in 0..MaxRecords }

(* the levels of tests::single_root_multi_layer *)
multi_layer_levels ==
  <<str_1, str_1_1, str_1_1, str_1_2, str_1_1>>

(* well-formed tables with the keys of the unit tests, as many records as *)
(* tests::single_root_multi_layer and levels of one type                  *)
TestTables ==
  { [keys |-> <<"level", "foo">>,
     records |-> [i \in 1..Len(multi_layer_levels) |-> <<l[i], Text(str_foo)>>]] :
    l \in [1..Len(multi_layer_levels) -> TextLevels]
          \cup [1..Len(multi_layer_levels) -> NumberLevels] }

(* ---------------------------------------------------------------- *)
(* fold as a state machine                                          *)
(* ---------------------------------------------------------------- *)

Init ==
  /\ \/ \E keys \in KeyLists : flat_data \in Tables(keys) /\ level_key \in LevelKeys
     \/ flat_data \in TestTables /\ level_key = "level"
  /\ pc = "fold"
  /\ level_key_index = 0
  /\ record_index = 1
  /\ working_node_stack = <<>>
  /\ top_level_nodes = <<>>
  /\ result = Pending
  /\ stack_after_push = <<>>
  /\ folded_data = FoldedData_default
  /\ rules = [id_key |-> "", name_key |-> None, quantity_key |-> None]
  /\ indices = [id |-> 0, name |-> 0, quantity |-> None]
  /\ pending = <<>>
  /\ boms = <<>>
  /\ bom_entries = <<>>
  /\ formatted = Pending

(* lines 7-9: empty records or keys return the default FoldedData *)
FoldEmpty ==
  /\ pc = "fold"
  /\ is_empty(flat_data.records, flat_data.keys)
  /\ pc' = "done"
  /\ result' = Ok(FoldedData_default)
  /\ UNCHANGED <<flat_data, level_key, level_key_index, record_index,
                 working_node_stack, top_level_nodes>>
  /\ UNCHANGED stack_after_push
  /\ UNCHANGED format_vars

(* lines 11-13: the level key is not one of the keys *)
FoldKeyNotFound ==
  /\ pc = "fold"
  /\ ~is_empty(flat_data.records, flat_data.keys)
  /\ position(flat_data.keys, level_key) = 0
  /\ pc' = "done"
  /\ result' = Err("InvalidArgument")
  /\ UNCHANGED <<flat_data, level_key, level_key_index, record_index,
                 working_node_stack, top_level_nodes>>
  /\ UNCHANGED stack_after_push
  /\ UNCHANGED format_vars

(* lines 11-20: the level key is found, the loop starts *)
FoldKeyFound ==
  /\ pc = "fold"
  /\ ~is_empty(flat_data.records, flat_data.keys)
  /\ position(flat_data.keys, level_key) # 0
  /\ level_key_index' = position(flat_data.keys, level_key)
  /\ pc' = "records"
  /\ UNCHANGED <<flat_data, level_key, record_index,
                 working_node_stack, top_level_nodes, result>>
  /\ UNCHANGED stack_after_push
  /\ UNCHANGED format_vars

(* line 23: indexing a row that has no cell at level_key_index panics *)
FoldRecordOutOfBounds ==
  /\ pc = "records"
  /\ record_index <= Len(flat_data.records)
  /\ Len(flat_data.records[record_index]) < level_key_index
  /\ pc' = "done"
  /\ result' = Panic
  /\ UNCHANGED <<flat_data, level_key, level_key_index, record_index,
                 working_node_stack, top_level_nodes>>
  /\ UNCHANGED stack_after_push
  /\ UNCHANGED format_vars

(* lines 22-36: one iteration of the loop over the records *)
FoldRecord ==
  /\ pc = "records"
  /\ record_index <= Len(flat_data.records)
  /\ Len(flat_data.records[record_index]) >= level_key_index
  /\ LET current_record_level == flat_data.records[record_index][level_key_index]
         u == IF working_node_stack # <<>>
              THEN unwind_working_stack(working_node_stack, top_level_nodes,
                                        current_record_level)
              ELSE [stack |-> working_node_stack, tops |-> top_level_nodes]
     IN /\ working_node_stack' =
             Append(u.stack, LevelNode(current_record_level,
                                       Node(record_index, <<>>)))
        /\ top_level_nodes' = u.tops
        /\ stack_after_push' =
             Append(stack_after_push,
                    [k \in 1..(Len(u.stack) + 1) |->
                       IF k <= Len(u.stack) THEN u.stack[k].node.attributes
                       ELSE record_index])
  /\ record_index' = record_index + 1
  /\ UNCHANGED <<flat_data, level_key, pc, level_key_index, result>>
  /\ UNCHANGED format_vars

(* lines 37-38: the remaining open nodes are closed, the forest returned *)
FoldReturn ==
  /\ pc = "records"
  /\ record_index > Len(flat_data.records)
  /\ LET u == unwind_working_stack_unconditionally(working_node_stack,
                                                   top_level_nodes)
     IN /\ working_node_stack' = u.stack
        /\ top_level_nodes' = u.tops
        /\ result' = Ok(FoldedData(u.tops, flat_data.keys))
  /\ pc' = "done"
  /\ UNCHANGED <<flat_data, level_key, level_key_index, record_index>>
  /\ UNCHANGED stack_after_push
  /\ UNCHANGED format_vars

Next ==
  \/ FoldEmpty
  \/ FoldKeyNotFound
  \/ FoldKeyFound
  \/ FoldRecordOutOfBounds
  \/ FoldRecord
  \/ FoldReturn

Spec ==
  Init /\ [][Next]_vars

TypeOK ==
  /\ pc \in {"fold", "records", "done"}
  /\ result.kind \in {"Pending", "Ok", "Err", "Panic"}
  /\ (pc = "done") = (result.kind # "Pending")
  /\ record_index \in 1..(Len(flat_data.records) + 1)

(* ---------------------------------------------------------------- *)
(* Reading a table and a returned forest                            *)
(* ---------------------------------------------------------------- *)

NumRecords ==
  Len(flat_data.records)

Returned ==
  pc = "done" /\ result.kind = "Ok"

Forest ==
  result.value.top_level_nodes

HasLevelKey ==
  \E c \in 1..Len(flat_data.keys) : flat_data.keys[c] = level_key

(* the column of the first key equal to the level key *)
LevelColumn ==
  CHOOSE c \in 1..Len(flat_data.keys) :
    flat_data.keys[c] = level_key /\ \A b \in 1..(c - 1) : flat_data.keys[b] # level_key

EmptyTable ==
  flat_data.records = <<>> \/ flat_data.keys = <<>>

(* the level key is a key and every row holds the level column *)
Foldable ==
  /\ ~EmptyTable
  /\ HasLevelKey
  /\ \A i \in 1..NumRecords : Len(flat_data.records[i]) >= LevelColumn

Level(i) ==
  flat_data.records[i][LevelColumn]

(* all levels of one type and mutually comparable *)
OneComparableType ==
  /\ Foldable
  /\ \A i, j \in 1..NumRecords :
       /\ Level(i).type = Level(j).type
       /\ partial_cmp(Level(i), Level(j)) # "None"

(* the <<record, parent record>> pairs of a list of sibling nodes; the *)
(* parent of a top level node is 0                                     *)
RECURSIVE ParentPairs(_, _)
ParentPairs(nodes, parent) ==
  UNION { {<<nodes[k].attributes, parent>>}
            \cup ParentPairs(nodes[k].children, nodes[k].attributes) :
          k \in 1..Len(nodes) }

(* every node of a list of sibling nodes, descendants included *)
RECURSIVE AllNodes(_)
AllNodes(nodes) ==
  UNION { {nodes[k]} \cup AllNodes(nodes[k].children) : k \in 1..Len(nodes) }

Parents(i) ==
  { pr[2] : pr \in { q \in ParentPairs(Forest, 0) : q[1] = i } }

(* the latest earlier record with a strictly smaller level, 0 if none *)
NearestSmaller(i) ==
  LET S == { j \in 1..(i - 1) : partial_cmp(Level(j), Level(i)) = "Less" }
  IN IF S = {} THEN 0 ELSE CHOOSE j \in S : \A k \in S : k <= j

(* ---------------------------------------------------------------- *)
(* Claims                                                           *)
(* ---------------------------------------------------------------- *)

(* C1: when all levels are of one type and mutually comparable, the    *)
(* parent of every record in the returned forest is the latest earlier *)
(* record whose level is strictly smaller, and a record with no such   *)
(* predecessor is a top level node.                                    *)
C1_ParentIsNearestSmaller ==
  (Returned /\ OneComparableType) =>
    \A i \in 1..NumRecords : Parents(i) = {NearestSmaller(i)}

(* a returned forest in which some record's parent is neither absent *)
(* nor the record right before it                                    *)
C1_Witness ==
  /\ Returned /\ OneComparableType
  /\ \E i \in 1..NumRecords :
       /\ NearestSmaller(i) \notin {0, i - 1}
       /\ Parents(i) = {NearestSmaller(i)}

(* the working stack's top node and the level of the record at hand, *)
(* when an iteration of the loop starts with an open node            *)
TopLevelNode ==
  working_node_stack[Len(working_node_stack)]

AtRecord ==
  /\ pc = "records"
  /\ record_index <= NumRecords
  /\ Len(flat_data.records[record_index]) >= level_key_index
  /\ working_node_stack # <<>>

CurrentLevel ==
  flat_data.records[record_index][level_key_index]

PushedOnTop ==
  working_node_stack' =
    Append(working_node_stack, LevelNode(CurrentLevel, Node(record_index, <<>>)))

OnStack(stack) ==
  { stack[k].node.attributes : k \in 1..Len(stack) }

(* C2 as stated: whenever the level of the record at hand and the level *)
(* of the node on top of the working stack are of different types,      *)
(* nothing is popped and the record is pushed on that node, of which it *)
(* becomes a child.                                                     *)
C2_MixedTypesNeverPop ==
  [][(AtRecord /\ TopLevelNode.level.type # CurrentLevel.type) => PushedOnTop]_vars

(* C2 amended: with a Text level on top and a Number level at hand      *)
(* nothing is popped and the record is pushed on that node; with a      *)
(* Number level on top and a Text level at hand the top node is closed  *)
(* (it leaves the working stack).                                       *)
C2_TextBelowNumber ==
  [][/\ (AtRecord /\ TopLevelNode.level.type = "Text"
                  /\ CurrentLevel.type = "Number") => PushedOnTop
     /\ (AtRecord /\ TopLevelNode.level.type = "Number"
                  /\ CurrentLevel.type = "Text") =>
          /\ TopLevelNode.node.attributes \notin OnStack(working_node_stack')
          /\ Len(working_node_stack') <= Len(working_node_stack)]_vars

(* after a Text, a Number and a Text record: the Number record is a    *)
(* child of the open Text node below, and it was closed by the Text    *)
(* record now on top                                                   *)
C2_Witness ==
  /\ pc = "records"
  /\ record_index >= 4
  /\ Len(working_node_stack) >= 2
  /\ TopLevelNode.node.attributes = record_index - 1
  /\ TopLevelNode.level.type = "Text"
  /\ Level(record_index - 2).type = "Number"
  /\ (record_index - 2) \notin OnStack(working_node_stack)
  /\ \E k \in 1..Len(working_node_stack) :
       /\ working_node_stack[k].level.type = "Text"
       /\ \E c \in 1..Len(working_node_stack[k].node.children) :
            working_node_stack[k].node.children[c].attributes = record_index - 2

(* the table of tests::single_root_multi_layer, as Text or as Number *)
multi_layer_numbers ==
  <<10, 11, 11, 12, 11>>

IsMultiLayerTable ==
  /\ Foldable
  /\ NumRecords = Len(multi_layer_levels)
  /\ \/ \A i \in 1..NumRecords : Level(i) = Text(multi_layer_levels[i])
     \/ \A i \in 1..NumRecords : Level(i) = Number(F64(multi_layer_numbers[i]))

(* C3 as stated: levels 1, 1.1, 1.1, 1.2, 1.1 fold into one top level *)
(* node, the first record, with the four other records as its direct  *)
(* children, none nested further.                                     *)
C3_FourDirectChildren ==
  (pc = "done" /\ IsMultiLayerTable) =>
    /\ result.kind = "Ok"
    /\ Forest = <<Node(1, <<Node(2, <<>>), Node(3, <<>>),
                            Node(4, <<>>), Node(5, <<>>)>>)>>

(* C3 amended: levels 1, 1.1, 1.1, 1.2, 1.1 fold into one top level    *)
(* node, the first record, with three direct children, records 2, 3    *)
(* and 5; record 4 (level 1.2) is the only child of record 3.          *)
C3_ThreeChildrenOneNested ==
  (pc = "done" /\ IsMultiLayerTable) =>
    /\ result.kind = "Ok"
    /\ Forest = <<Node(1, <<Node(2, <<>>), Node(3, <<Node(4, <<>>)>>),
                            Node(5, <<>>)>>)>>

C3_Witness ==
  /\ Returned
  /\ IsMultiLayerTable
  /\ Len(Forest) = 1
  /\ Len(Forest[1].children) = 3

(* C4 as stated: fold fails with InvalidArgument for every table and *)
(* every level key that is not one of the table's keys.              *)
C4_MissingKeyAlwaysFails ==
  (pc = "done" /\ ~HasLevelKey) => result = Err("InvalidArgument")

(* C4 amended: fold fails with InvalidArgument, and returns no forest, *)
(* for every table with at least one record and at least one key and   *)
(* every level key that is not one of the table's keys.                *)
C4_MissingKeyFailsUnlessEmpty ==
  (pc = "done" /\ ~EmptyTable /\ ~HasLevelKey) => result = Err("InvalidArgument")

C4_Witness ==
  /\ pc = "done"
  /\ ~EmptyTable
  /\ ~HasLevelKey
  /\ result = Err("InvalidArgument")

(* C5: fold returns a forest without top level nodes, never an error, *)
(* whenever the table has no records or no keys.                      *)
C5_EmptyTableEmptyForest ==
  (pc = "done" /\ EmptyTable) =>
    /\ result.kind = "Ok"
    /\ result.value.top_level_nodes = <<>>

(* a table of records without keys, folded *)
C5_Witness ==
  /\ Returned
  /\ flat_data.keys = <<>>
  /\ flat_data.records # <<>>
  /\ result.value.top_level_nodes = <<>>

(* C6 as stated: a table with a row too short to hold the level column *)
(* makes fold return the InvalidArgument error; fold neither panics    *)
(* nor returns a forest.                                               *)
C6_ShortRowInvalidArgument ==
  (/\ pc = "done"
   /\ ~EmptyTable
   /\ HasLevelKey
   /\ \E i \in 1..NumRecords : Len(flat_data.records[i]) < LevelColumn) =>
    result = Err("InvalidArgument")

(* C7 as stated: the attribute keys of every returned forest are the *)
(* table's keys.                                                     *)
C7_AttributeKeysAreTableKeys ==
  Returned => result.value.attribute_keys = flat_data.keys

(* C7 amended: the attribute keys of a forest returned for a table with *)
(* at least one record are the table's keys; the forest returned for a  *)
(* table without records has no attribute keys.                         *)
C7_AttributeKeysUnlessNoRecords ==
  Returned =>
    result.value.attribute_keys =
      IF flat_data.records = <<>> THEN <<>> ELSE flat_data.keys

C7_Witness ==
  /\ Returned
  /\ flat_data.records # <<>>
  /\ Len(flat_data.keys) = 2
  /\ result.value.attribute_keys = flat_data.keys

(* C8: when all records carry an equal level value, the returned forest *)
(* has one top level node per record, in input order, and no node has   *)
(* children.                                                            *)
C8_EqualLevelsAllTopLevel ==
  (/\ Returned
   /\ Foldable
   /\ \A i, j \in 1..NumRecords : value_eq(Level(i), Level(j))) =>
    Forest = [i \in 1..NumRecords |-> Node(i, <<>>)]

C8_Witness ==
  /\ Returned
  /\ Foldable
  /\ NumRecords >= 3
  /\ \A i, j \in 1..NumRecords : value_eq(Level(i), Level(j))
  /\ Len(Forest) = NumRecords

(* the chain of the records from i on, each the only child of the one before *)
RECURSIVE Chain(_)
Chain(i) ==
  Node(i, IF i >= NumRecords THEN <<>> ELSE <<Chain(i + 1)>>)

StrictlyIncreasing ==
  \A i \in 1..(NumRecords - 1) : partial_cmp(Level(i), Level(i + 1)) = "Less"

(* C9: when the level strictly increases from each record to the next, *)
(* the returned forest is a single chain: the first record is the only *)
(* top level node, every next record is the only child of the record   *)
(* before it, and the last record has no children.                     *)
C9_IncreasingLevelsChain ==
  (Returned /\ Foldable /\ StrictlyIncreasing) => Forest = <<Chain(1)>>

C9_Witness ==
  /\ Returned
  /\ Foldable
  /\ StrictlyIncreasing
  /\ NumRecords >= 3
  /\ Forest = <<Chain(1)>>

(* sibling nodes in the order of their records *)
InInputOrder(nodes) ==
  \A a, b \in 1..Len(nodes) : a < b => nodes[a].attributes < nodes[b].attributes

(* a record whose level is less than or equal to every other record's *)
AtMinimalLevel(i) ==
  \A j \in 1..NumRecords :
    j # i => partial_cmp(Level(i), Level(j)) \in {"Less", "Equal"}

(* C10: in every returned forest the top level nodes and the children *)
(* of every node are in the order of their records, and every record  *)
(* at the minimal level is a top level node.                          *)
C10_SiblingsInInputOrder ==
  (Returned /\ Foldable) =>
    /\ InInputOrder(Forest)
    /\ \A node \in AllNodes(Forest) : InInputOrder(node.children)
    /\ \A i \in 1..NumRecords :
         AtMinimalLevel(i) => \E t \in 1..Len(Forest) : Forest[t].attributes = i

(* two records at the minimal level, each the root of a tree with *)
(* children, and a node with several children                     *)
C10_Witness ==
  /\ Returned
  /\ Foldable
  /\ Len(Forest) = 2
  /\ AtMinimalLevel(Forest[1].attributes)
  /\ AtMinimalLevel(Forest[2].attributes)
  /\ Forest[1].attributes < Forest[2].attributes
  /\ Forest[1].children # <<>>
  /\ Len(Forest[2].children) >= 2

(* ---------------------------------------------------------------- *)
(* format_item_sync and its helpers (materialize/mod.rs)            *)
(* ---------------------------------------------------------------- *)

BomRecord(id, name) ==
  [id |-> id, name |-> name]

BomEntryRecord(bom_id, type, entry_id, qty) ==
  [bom_id |-> bom_id, entry_type |-> type, entry_id |-> entry_id,
   quantity |-> qty]

ItemSyncFormat(headers, entries) ==
  [boms |-> headers, bom_entries |-> entries]

AttributeIndices(id, name, qty) ==
  [id |-> id, name |-> name, quantity |-> qty]

ItemSyncFormatRules(id_key, name_key, quantity_key) ==
  [id_key |-> id_key, name_key |-> name_key, quantity_key |-> quantity_key]

(* the row a node borrows *)
attributes_of(node) ==
  flat_data.records[node.attributes]

get_or_last(attributes, index) ==
  IF attributes = <<>> THEN None
  ELSE IF index \in 1..Len(attributes) THEN Some(attributes[index])
  ELSE Some(attributes[Len(attributes)])

(* slice::get as used on node.attributes *)
get(attributes, index) ==
  IF index \in 1..Len(attributes) THEN Some(attributes[index]) ELSE None

AttributeIndices_new_first_id(attribute_keys, r) ==
  LET id_index == position_or_first(attribute_keys, r.id_key)
      name_found == IF r.name_key.some
                    THEN position(attribute_keys, r.name_key.value) ELSE 0
      quantity_found == IF r.quantity_key.some
                        THEN position(attribute_keys, r.quantity_key.value) ELSE 0
  IN Ok(AttributeIndices(id_index,
                         IF name_found # 0 THEN name_found ELSE id_index,
                         IF quantity_found # 0 THEN Some(quantity_found) ELSE None))

AttributeIndices_new_strict_name(attribute_keys, r) ==
  LET id_index == position(attribute_keys, r.id_key)
      name_found == IF r.name_key.some
                    THEN position(attribute_keys, r.name_key.value) ELSE 0
      quantity_found == IF r.quantity_key.some
                        THEN position(attribute_keys, r.quantity_key.value) ELSE 0
  IN IF id_index = 0 \/ name_found = 0 THEN Err("InvalidArgument")
     ELSE Ok(AttributeIndices(id_index, name_found,
                              IF quantity_found # 0 THEN Some(quantity_found)
                              ELSE None))

(* AttributeIndices::new: the id key must be found; a name key that is *)
(* absent or not found falls back to the id; a quantity key that is    *)
(* absent or not found leaves no quantity index                        *)
AttributeIndices_new(attribute_keys, r) ==
  LET id_index == position(attribute_keys, r.id_key)
      name_found == IF r.name_key.some
                    THEN position(attribute_keys, r.name_key.value) ELSE 0
      quantity_found == IF r.quantity_key.some
                        THEN position(attribute_keys, r.quantity_key.value) ELSE 0
  IN IF id_index = 0 THEN Err("InvalidArgument")
     ELSE Ok(AttributeIndices(id_index,
                              IF name_found # 0 THEN name_found ELSE id_index,
                              IF quantity_found # 0 THEN Some(quantity_found)
                              ELSE None))

entry_type_swapped(node) ==
  IF node.children = <<>> THEN "sub-bom" ELSE "part"

(* lines 66-69 *)
entry_type(node) ==
  IF node.children = <<>> THEN "part" ELSE "sub-bom"

quantity_or_zero(ix, attributes) ==
  IF ix.quantity.some
  THEN LET cell == get(attributes, ix.quantity.value)
       IN IF cell.some /\ cell.value.type = "Number" THEN cell.value.number
          ELSE F64(0)
  ELSE F64(0)

(* lines 80-86: the Number at the quantity index, otherwise 1.0 *)
quantity(ix, attributes) ==
  IF ix.quantity.some
  THEN LET cell == get(attributes, ix.quantity.value)
       IN IF cell.some /\ cell.value.type = "Number" THEN cell.value.number
          ELSE F64(10)
  ELSE F64(10)

(* a call of recursively_make_records yet to be made *)
Frame(node, parent_node_id) ==
  [node |-> node, parent_node_id |-> parent_node_id]

child_frames_reversed(node, node_id) ==
  [k \in 1..Len(node.children) |->
     Frame(node.children[Len(node.children) + 1 - k], Some(node_id))]

(* lines 98-100: the calls for the children, in order *)
child_frames(node, node_id) ==
  [k \in 1..Len(node.children) |-> Frame(node.children[k], Some(node_id))]

(* lines 59-102, one call without the calls it makes: the records after *)
(* the call, whether it failed, and the calls it makes in order         *)
recursively_make_records(headers, entries, ix, frame) ==
  LET node == frame.node
      node_id == get(attributes_of(node), ix.id)
      name == get(attributes_of(node), ix.name)
      with_entry ==
        IF frame.parent_node_id.some /\ node_id.some
        THEN Append(entries,
                    BomEntryRecord(frame.parent_node_id.value, entry_type(node),
                                   node_id.value,
                                   quantity(ix, attributes_of(node))))
        ELSE entries
  IN IF ~node_id.some
     THEN [boms |-> headers, bom_entries |-> entries, failed |-> TRUE,
           calls |-> <<>>]
     ELSE IF node.children = <<>>
     THEN [boms |-> headers, bom_entries |-> with_entry, failed |-> FALSE,
           calls |-> <<>>]
     ELSE IF ~name.some
     THEN [boms |-> headers, bom_entries |-> with_entry, failed |-> TRUE,
           calls |-> <<>>]
     ELSE [boms |-> Append(headers, BomRecord(node_id.value, name.value)),
           bom_entries |-> with_entry, failed |-> FALSE,
           calls |-> child_frames(node, node_id.value)]

(* line 51, the comparator: no relation counts as Equal *)
compare(lhs, rhs) ==
  LET ordering == partial_cmp(lhs.id, rhs.id)
  IN IF ordering = "None" THEN "Equal" ELSE ordering

Arrangements(seq) ==
  { [k \in 1..Len(seq) |-> seq[f[k]]] :
      f \in { g \in [1..Len(seq) -> 1..Len(seq)] :
                \A a, b \in 1..Len(seq) : a # b => g[a] # g[b] } }

(* line 51, slice::sort_unstable_by: with a comparator that is a total    *)
(* order on the elements, any arrangement in which no element is Greater  *)
(* than a later one (elements that compare Equal in any order); otherwise *)
(* the order is unspecified and every arrangement is possible             *)
sort_unstable_by(seq) ==
  IF \A a, b \in 1..Len(seq) : a # b => partial_cmp(seq[a].id, seq[b].id) # "None"
  THEN { q \in Arrangements(seq) :
           \A a, b \in 1..Len(q) : a < b => compare(q[a], q[b]) # "Greater" }
  ELSE Arrangements(seq)

RECURSIVE dedup_by_compare(_)
dedup_by_compare(seq) ==
  IF Len(seq) <= 1 THEN seq
  ELSE LET kept == dedup_by_compare(SubSeq(seq, 1, Len(seq) - 1))
       IN IF compare(seq[Len(seq)], kept[Len(kept)]) = "Equal" THEN kept
          ELSE Append(kept, seq[Len(seq)])

(* line 52, Vec::dedup_by_key on the id: an element equal to the one *)
(* kept before it is removed                                         *)
RECURSIVE dedup_by_key(_)
dedup_by_key(seq) ==
  IF Len(seq) <= 1 THEN seq
  ELSE LET kept == dedup_by_key(SubSeq(seq, 1, Len(seq) - 1))
       IN IF value_eq(seq[Len(seq)].id, kept[Len(kept)].id) THEN kept
          ELSE Append(kept, seq[Len(seq)])

(* ---------------------------------------------------------------- *)
(* Inputs of format_item_sync                                       *)
(* ---------------------------------------------------------------- *)

MaxNodes ==
  4

MaxRaggedNodes ==
  3

(* the keys of the rules fixed in main (bin/fold_items.rs) *)
item_keys ==
  <<"Part Number", "Part Name", "Quantity">>

main_rules ==
  ItemSyncFormatRules("Part Number", Some("Part Name"), Some("Quantity"))

(* rules whose keys are keys of the forest, are not, or are absent *)
RulesChoices ==
  { ItemSyncFormatRules(id_key, name_key, quantity_key) :
      id_key \in {"Part Number", "Id"},
      name_key \in {None, Some("Part Name"), Some("Name")},
      quantity_key \in {None, Some("Quantity"), Some("Count")} }

(* ids: "a", 1.0 and NaN *)
IdValues ==
  {Text(<<97>>), Number(F64(10)), Number(NaN)}

(* "a", "b", ...: a different id for every row *)
id_of_row(i) ==
  Text(<<96 + i>>)

(* "n1", "n2", ...: a different name for every row *)
name_of_row(i) ==
  Text(<<110, 48 + i>>)

QuantityValues ==
  {Number(F64(20)), Text(str_foo)}

(* is a an ancestor of x, or x itself, under the parents p *)
RECURSIVE IsAncestorOrSelf(_, _, _)
IsAncestorOrSelf(p, a, x) ==
  x # 0 /\ (a = x \/ IsAncestorOrSelf(p, a, p[x]))

(* the parents (0 for none) of n nodes numbered in depth-first order *)
ParentVectors(n) ==
  { p \in [1..n -> 0..n] :
      \A i \in 1..n :
        /\ p[i] < i
        /\ p[i] # 0 => IsAncestorOrSelf(p, p[i], i - 1) }

RECURSIVE Ascending(_)
Ascending(S) ==
  IF S = {} THEN <<>>
  ELSE LET m == CHOOSE x \in S : \A y \in S : x <= y
       IN <<m>> \o Ascending(S \ {m})

(* the nodes whose parent is i, as trees, in order; node i borrows row i *)
RECURSIVE NodesUnder(_, _, _)
NodesUnder(p, n, i) ==
  LET under == Ascending({ j \in 1..n : p[j] = i })
  IN [k \in 1..Len(under) |-> Node(under[k], NodesUnder(p, n, under[k]))]

(* full rows whose ids repeat and mix Text, Number and NaN *)
IdRows(n) ==
  { [i \in 1..n |-> <<ids[i], name_of_row(i), Number(F64(20))>>] :
    ids \in [1..n -> IdValues] }

(* rows of every length up to the number of keys (ragged rows included), *)
(* with a Number or a Text in the quantity column                        *)
RaggedRows(n) ==
  { [i \in 1..n |-> SubSeq(<<id_of_row(i), name_of_row(i), q[i]>>, 1, len[i])] :
    q \in [1..n -> QuantityValues], len \in [1..n -> 0..Len(item_keys)] }

(* ---------------------------------------------------------------- *)
(* format_item_sync as a state machine                              *)
(* ---------------------------------------------------------------- *)

InitFormat ==
  /\ \/ \E n \in 0..MaxNodes : \E p \in ParentVectors(n) :
          /\ flat_data \in [keys : {item_keys}, records : IdRows(n)]
          /\ folded_data = FoldedData(NodesUnder(p, n, 0), item_keys)
          /\ rules = main_rules
     \/ \E n \in 0..MaxRaggedNodes : \E p \in ParentVectors(n) :
          /\ flat_data \in [keys : {item_keys}, records : RaggedRows(n)]
          /\ folded_data = FoldedData(NodesUnder(p, n, 0), item_keys)
          /\ rules \in RulesChoices
     \/ /\ flat_data = [keys |-> <<>>, records |-> <<>>]
        /\ folded_data = FoldedData_default
        /\ rules \in RulesChoices
  /\ pc = "format"
  /\ level_key = ""
  /\ level_key_index = 0
  /\ record_index = 1
  /\ working_node_stack = <<>>
  /\ top_level_nodes = <<>>
  /\ result = Pending
  /\ stack_after_push = <<>>
  /\ indices = AttributeIndices(0, 0, None)
  /\ pending = <<>>
  /\ boms = <<>>
  /\ bom_entries = <<>>
  /\ formatted = Pending

(* line 38: AttributeIndices::new fails, the error is returned *)
FormatIndicesNotFound ==
  /\ pc = "format"
  /\ AttributeIndices_new(folded_data.attribute_keys, rules).kind = "Err"
  /\ formatted' = AttributeIndices_new(folded_data.attribute_keys, rules)
  /\ pc' = "formatted"
  /\ UNCHANGED <<flat_data, folded_data, rules, indices, pending, boms,
                 bom_entries>>
  /\ UNCHANGED fold_vars

(* lines 38-42: the indices are resolved, the top level nodes await *)
(* their call, each without a parent                                *)
FormatIndices ==
  /\ pc = "format"
  /\ AttributeIndices_new(folded_data.attribute_keys, rules).kind = "Ok"
  /\ indices' = AttributeIndices_new(folded_data.attribute_keys, rules).value
  /\ pending' = [k \in 1..Len(folded_data.top_level_nodes) |->
                   Frame(folded_data.top_level_nodes[k], None)]
  /\ boms' = <<>>
  /\ bom_entries' = <<>>
  /\ pc' = "visit"
  /\ UNCHANGED <<flat_data, folded_data, rules, formatted>>
  /\ UNCHANGED fold_vars

(* lines 59-102: the next call of recursively_make_records succeeds; *)
(* the calls for the children come before the calls still pending    *)
FormatVisit ==
  /\ pc = "visit"
  /\ pending # <<>>
  /\ LET call == recursively_make_records(boms, bom_entries, indices,
                                          Head(pending))
     IN /\ ~call.failed
        /\ boms' = call.boms
        /\ bom_entries' = call.bom_entries
        /\ pending' = call.calls \o Tail(pending)
  /\ UNCHANGED <<flat_data, folded_data, rules, indices, formatted, pc>>
  /\ UNCHANGED fold_vars

(* lines 70-73, 93-96 and the `?` of lines 49 and 99: the next call   *)
(* fails and the error is returned through every caller; the records  *)
(* gathered so far stay behind in the abandoned vectors               *)
FormatVisitFails ==
  /\ pc = "visit"
  /\ pending # <<>>
  /\ LET call == recursively_make_records(boms, bom_entries, indices,
                                          Head(pending))
     IN /\ call.failed
        /\ boms' = call.boms
        /\ bom_entries' = call.bom_entries
  /\ formatted' = Err("InvalidArgument")
  /\ pc' = "formatted"
  /\ UNCHANGED <<flat_data, folded_data, rules, indices, pending>>
  /\ UNCHANGED fold_vars

(* line 51: every node is visited, the headers are sorted by id *)
FormatSort ==
  /\ pc = "visit"
  /\ pending = <<>>
  /\ boms' \in sort_unstable_by(boms)
  /\ pc' = "dedup"
  /\ UNCHANGED <<flat_data, folded_data, rules, indices, pending,
                 bom_entries, formatted>>
  /\ UNCHANGED fold_vars

(* lines 52-53: consecutive headers with equal ids are removed, the *)
(* records returned                                                 *)
FormatDedup ==
  /\ pc = "dedup"
  /\ boms' = dedup_by_key(boms)
  /\ formatted' = Ok(ItemSyncFormat(dedup_by_key(boms), bom_entries))
  /\ pc' = "formatted"
  /\ UNCHANGED <<flat_data, folded_data, rules, indices, pending,
                 bom_entries>>
  /\ UNCHANGED fold_vars

NextFormat ==
  \/ FormatIndicesNotFound
  \/ FormatIndices
  \/ FormatVisit
  \/ FormatVisitFails
  \/ FormatSort
  \/ FormatDedup

SpecFormat ==
  InitFormat /\ [][NextFormat]_vars

(* ---------------------------------------------------------------- *)
(* Reading a forest and the returned records                        *)
(* ---------------------------------------------------------------- *)

Formatted ==
  pc = "formatted" /\ formatted.kind = "Ok"

Headers ==
  formatted.value.boms

Entries ==
  formatted.value.bom_entries

(* the column of the first attribute key equal to key, 0 if there is none *)
ColumnOf(key) ==
  LET found == { c \in 1..Len(folded_data.attribute_keys) :
                   folded_data.attribute_keys[c] = key }
  IN IF found = {} THEN 0 ELSE CHOOSE c \in found : \A b \in found : c <= b

IdColumn ==
  ColumnOf(rules.id_key)

Row(i) ==
  flat_data.records[i]

(* the nodes of a list of sibling nodes, descendants included, in     *)
(* depth-first pre-order, each with the row of its parent (0 if none) *)
RECURSIVE PreOrder(_, _)
PreOrder(nodes, parent) ==
  IF nodes = <<>> THEN <<>>
  ELSE <<[node |-> nodes[1], parent |-> parent]>>
         \o PreOrder(nodes[1].children, nodes[1].attributes)
         \o PreOrder(Tail(nodes), parent)

AllInPreOrder ==
  PreOrder(folded_data.top_level_nodes, 0)

(* the nodes that have a parent, in depth-first pre-order *)
ChildrenInPreOrder ==
  SelectSeq(AllInPreOrder, LAMBDA v : v.parent # 0)

(* the nodes that have children, in depth-first pre-order *)
AssembliesInPreOrder ==
  SelectSeq(AllInPreOrder, LAMBDA v : v.node.children # <<>>)

(* the call of recursively_make_records about to be made *)
NextCall ==
  Head(pending)

CallSucceeds ==
  pc = "visit" /\ pending # <<>> /\ pc' = "visit"

(* C11: the entry pushed for a node that has a parent has type "part" *)
(* when the node has no children and "sub-bom" when it has some; a    *)
(* node without children pushes no header and leads to no further     *)
(* call, a node with children pushes one header.                      *)
C11_EntryTypeFollowsChildren ==
  [][CallSucceeds =>
       /\ NextCall.parent_node_id.some =>
            /\ Len(bom_entries') = Len(bom_entries) + 1
            /\ bom_entries'[Len(bom_entries')].entry_type =
                 IF NextCall.node.children = <<>> THEN "part" ELSE "sub-bom"
       /\ ~NextCall.parent_node_id.some => bom_entries' = bom_entries
       /\ NextCall.node.children = <<>> =>
            boms' = boms /\ pending' = Tail(pending)
       /\ NextCall.node.children # <<>> => Len(boms') = Len(boms) + 1]_vars

(* records returned with a "part" and a "sub-bom" entry *)
C11_Witness ==
  /\ Formatted
  /\ \E k \in 1..Len(Entries) : Entries[k].entry_type = "part"
  /\ \E k \in 1..Len(Entries) : Entries[k].entry_type = "sub-bom"
  /\ Len(AllInPreOrder) > Len(AssembliesInPreOrder)

(* C12: the returned entries are, in depth-first pre-order, one entry  *)
(* for every node that has a parent, with the parent's id as bom_id    *)
(* and the node's id as entry_id; top level nodes have no entry and    *)
(* equal entries are all kept.                                         *)
C12_EntriesInPreOrder ==
  Formatted =>
    /\ Len(Entries) = Len(ChildrenInPreOrder)
    /\ \A k \in 1..Len(Entries) :
         /\ Entries[k].bom_id = Row(ChildrenInPreOrder[k].parent)[IdColumn]
         /\ Entries[k].entry_id =
              Row(ChildrenInPreOrder[k].node.attributes)[IdColumn]

(* two top level nodes with equal ids, each with one child, the *)
(* children with equal ids: two equal entries, both kept        *)
C12_Witness ==
  /\ Formatted
  /\ Len(folded_data.top_level_nodes) = 2
  /\ Len(Entries) = 2
  /\ Entries[1] = Entries[2]
  /\ Entries[1].bom_id # Entries[1].entry_id

(* C13 as stated: no two returned headers have equal ids, whatever the *)
(* forest and whatever Text and Number ids it holds.                   *)
C13_HeaderIdsUnique ==
  Formatted =>
    \A a, b \in 1..Len(Headers) :
      a # b => ~value_eq(Headers[a].id, Headers[b].id)

HeaderIds ==
  { Headers[k].id : k \in 1..Len(Headers) }

AssemblyIds ==
  { Row(AssembliesInPreOrder[k].node.attributes)[IdColumn] :
      k \in 1..Len(AssembliesInPreOrder) }

(* C14: the ids of the returned headers are the ids of the nodes that *)
(* have children, and the bom_id of every returned entry is the id of *)
(* a returned header.                                                 *)
C14_HeaderIdsAreAssemblyIds ==
  Formatted =>
    /\ HeaderIds = AssemblyIds
    /\ \A k \in 1..Len(Entries) : Entries[k].bom_id \in HeaderIds

(* several headers returned, fewer than there are nodes with children *)
C14_Witness ==
  /\ Formatted
  /\ Len(Headers) >= 2
  /\ Len(AssembliesInPreOrder) > Len(Headers)
  /\ Len(Entries) >= 3

(* the position in the sorted headers of the first one equal to header *)
FirstSorted(header) ==
  CHOOSE j \in 1..Len(boms) :
    boms[j] = header /\ \A i \in 1..(j - 1) : boms[i] # header

(* C15 as stated: the returned headers are ordered by id, no header's  *)
(* id being greater than the id of a later header, and the header kept *)
(* for an id is the first with that id after the sort.                 *)
C15_HeadersOrderedById ==
  [][pc = "dedup" =>
       /\ \A a, b \in 1..Len(boms') :
            a < b => partial_cmp(boms'[a].id, boms'[b].id) # "Greater"
       /\ \A k \in 1..Len(boms') : \A j \in 1..Len(boms) :
            value_eq(boms[j].id, boms'[k].id) => FirstSorted(boms'[k]) <= j]_vars

(* the column of the quantity key, 0 if the rules name none or it is *)
(* not an attribute key                                             *)
QuantityColumn ==
  IF rules.quantity_key.some THEN ColumnOf(rules.quantity_key.value) ELSE 0

(* the column of the name key; the id column if the rules name none or *)
(* it is not an attribute key                                          *)
NameColumn ==
  IF rules.name_key.some /\ ColumnOf(rules.name_key.value) # 0
  THEN ColumnOf(rules.name_key.value)
  ELSE IdColumn

(* the Number in the quantity column of a row, 1.0 if there is none *)
QuantityOf(row) ==
  IF /\ QuantityColumn # 0
     /\ QuantityColumn <= Len(row)
     /\ row[QuantityColumn].type = "Number"
  THEN row[QuantityColumn].number
  ELSE F64(10)

(* every row a node borrows holds the id and the name column *)
RowsHoldIdAndName ==
  /\ IdColumn # 0
  /\ \A k \in 1..Len(AllInPreOrder) :
       /\ Len(Row(AllInPreOrder[k].node.attributes)) >= IdColumn
       /\ Len(Row(AllInPreOrder[k].node.attributes)) >= NameColumn

(* C16: the quantity of every entry is the Number in the node's       *)
(* quantity column when the rules name a quantity key, it is an       *)
(* attribute key and the row holds a Number there; otherwise it is    *)
(* 1.0, and the call does not fail for it.                            *)
C16_QuantityOrOne ==
  /\ \A k \in 1..Len(bom_entries) :
       bom_entries[k].quantity =
         QuantityOf(Row(ChildrenInPreOrder[k].node.attributes))
  /\ (pc = "formatted" /\ RowsHoldIdAndName) => formatted.kind = "Ok"

(* entries returned with the quantity of the row, and with 1.0 for a *)
(* row too short to hold a quantity                                  *)
C16_Witness ==
  /\ Formatted
  /\ QuantityColumn # 0
  /\ \E k \in 1..Len(Entries) :
       /\ Len(Row(ChildrenInPreOrder[k].node.attributes)) >= QuantityColumn
       /\ Entries[k].quantity = F64(20)
  /\ \E k \in 1..Len(Entries) :
       /\ Len(Row(ChildrenInPreOrder[k].node.attributes)) < QuantityColumn
       /\ Entries[k].quantity = F64(10)

HeaderOf(row) ==
  BomRecord(row[IdColumn], row[NameColumn])

(* C17: when the rules name no name key, or one that is not an         *)
(* attribute key, the call does not fail for it and the name of every  *)
(* header is the id of its node; when the name key is an attribute key *)
(* the name is the node's attribute in that column.                    *)
C17_NameFallsBackToId ==
  /\ pc = "visit" =>
       \A k \in 1..Len(boms) :
         boms[k] = HeaderOf(Row(AssembliesInPreOrder[k].node.attributes))
  /\ Formatted =>
       \A k \in 1..Len(Headers) :
         \E a \in 1..Len(AssembliesInPreOrder) :
           Headers[k] = HeaderOf(Row(AssembliesInPreOrder[a].node.attributes))
  /\ (/\ pc = "formatted"
      /\ IdColumn # 0
      /\ \A k \in 1..Len(AllInPreOrder) :
           Len(Row(AllInPreOrder[k].node.attributes)) >= IdColumn
      /\ NameColumn = IdColumn) => formatted.kind = "Ok"

(* headers returned under a name key that is not an attribute key, for *)
(* rows that hold a name different from the id                         *)
C17_Witness ==
  /\ Formatted
  /\ rules.name_key.some
  /\ ColumnOf(rules.name_key.value) = 0
  /\ Len(Headers) >= 2
  /\ \A k \in 1..Len(Headers) : Headers[k].name = Headers[k].id
  /\ \A k \in 1..Len(AssembliesInPreOrder) :
       Len(Row(AssembliesInPreOrder[k].node.attributes)) >= 2

(* C18: when the id key is not an attribute key, format_item_sync *)
(* fails with InvalidArgument without visiting any node, whatever *)
(* the forest.                                                    *)
C18_MissingIdKeyFails ==
  IdColumn = 0 =>
    /\ pc \in {"format", "formatted"}
    /\ pc = "formatted" => formatted = Err("InvalidArgument")
    /\ boms = <<>> /\ bom_entries = <<>> /\ pending = <<>>

C18_Witness ==
  /\ pc = "formatted"
  /\ IdColumn = 0
  /\ folded_data.attribute_keys # <<>>
  /\ Len(AllInPreOrder) >= 2
  /\ formatted = Err("InvalidArgument")

(* a node whose row is too short for the id, or a node with children *)
(* whose row is too short for the name                               *)
FaultyNode(node) ==
  \/ Len(Row(node.attributes)) < IdColumn
  \/ node.children # <<>> /\ Len(Row(node.attributes)) < NameColumn

(* C19: with the id key found, format_item_sync returns InvalidArgument *)
(* and no records exactly when the row of some node is too short for    *)
(* the id or the row of some node with children is too short for the    *)
(* name; a childless node whose row is too short for the name only      *)
(* causes no error.                                                     *)
C19_FailsOnShortRow ==
  (pc = "formatted" /\ IdColumn # 0) =>
    IF \E k \in 1..Len(AllInPreOrder) : FaultyNode(AllInPreOrder[k].node)
    THEN formatted = Err("InvalidArgument")
    ELSE formatted.kind = "Ok"

(* the call fails after a header and entries were gathered, one of them *)
(* for a childless node whose row does not hold the name                *)
C19_Witness ==
  /\ pc = "formatted"
  /\ formatted = Err("InvalidArgument")
  /\ IdColumn # 0
  /\ NameColumn > IdColumn
  /\ boms # <<>>
  /\ Len(bom_entries) >= 1
  /\ Len(Row(ChildrenInPreOrder[1].node.attributes)) < NameColumn

(* ---------------------------------------------------------------- *)
(* The working stack and the shape of the returned forest           *)
(* ---------------------------------------------------------------- *)

(* the <<record, ancestors>> pairs of a list of sibling nodes, the *)
(* ancestors of a record from the top level node down to its parent *)
RECURSIVE AncestorPairs(_, _)
AncestorPairs(nodes, above) ==
  UNION { {<<nodes[k].attributes, above>>}
            \cup AncestorPairs(nodes[k].children,
                               Append(above, nodes[k].attributes)) :
          k \in 1..Len(nodes) }

(* the ancestor lists under which record i is found in the returned forest *)
AncestorsOf(i) ==
  { pr[2] : pr \in { q \in AncestorPairs(Forest, <<>>) : q[1] = i } }

(* a record was just pushed *)
AfterPush ==
  pc = "records" /\ record_index > 1

(* C21: right after a record is pushed the working stack holds that    *)
(* record on top of exactly its ancestors in the returned forest (its  *)
(* size is one more than the number of these ancestors) and is no      *)
(* deeper than the number of records processed; when fold returns the  *)
(* stack is empty and every record is attached once, to its parent or  *)
(* to the top level nodes.                                             *)
C21_StackHoldsAncestors ==
  /\ AfterPush =>
       /\ Len(working_node_stack) <= record_index - 1
       /\ Len(stack_after_push) = record_index - 1
       /\ stack_after_push[record_index - 1] =
            [k \in 1..Len(working_node_stack) |->
               working_node_stack[k].node.attributes]
  /\ (Returned /\ Foldable) =>
       /\ working_node_stack = <<>>
       /\ Len(stack_after_push) = NumRecords
       /\ \A i \in 1..NumRecords :
            /\ Cardinality(Parents(i)) = 1
            /\ \E above \in AncestorsOf(i) :
                 /\ AncestorsOf(i) = {above}
                 /\ stack_after_push[i] = Append(above, i)
                 /\ Len(stack_after_push[i]) = 1 + Len(above)

(* a forest returned with a record two levels down, pushed on a stack *)
(* of three, and a later record pushed on a stack of one              *)
C21_Witness ==
  /\ Returned
  /\ Foldable
  /\ working_node_stack = <<>>
  /\ \E i \in 1..NumRecords : \E j \in (i + 1)..NumRecords :
       /\ Len(stack_after_push[i]) = 3
       /\ \E above \in AncestorsOf(i) : Len(above) = 2
       /\ Len(stack_after_push[j]) = 1

(* the records in depth-first pre-order of the returned forest *)
RecordsInPreOrder ==
  [k \in 1..Len(PreOrder(Forest, 0)) |-> PreOrder(Forest, 0)[k].node.attributes]

(* C22: for every table whose keys hold the level key and whose rows *)
(* all hold the level column, the depth-first pre-order traversal of *)
(* the returned forest visits the records in input order, each once, *)
(* whatever the level values are.                                    *)
C22_PreOrderIsInputOrder ==
  (Returned /\ Foldable) =>
    RecordsInPreOrder = [i \in 1..NumRecords |-> i]

(* levels of both types, a NaN among them, in a forest with nested *)
(* nodes and several top level nodes                               *)
C22_Witness ==
  /\ Returned
  /\ Foldable
  /\ NumRecords >= 3
  /\ \E i, j \in 1..NumRecords : Level(i).type # Level(j).type
  /\ \E i \in 1..NumRecords : Level(i) = Number(NaN)
  /\ Len(Forest) >= 2
  /\ \E t \in 1..Len(Forest) : Forest[t].children # <<>>
  /\ RecordsInPreOrder = [i \in 1..NumRecords |-> i]

(* C23: for levels of one type, mutually comparable: after each record *)
(* is processed the levels on the working stack strictly increase from *)
(* bottom to top; in the returned forest the level of every child is   *)
(* strictly greater than the level of its parent, and no top level     *)
(* node's level is less than the level of a later top level node.      *)
C23_StackStrictlyIncreasing ==
  OneComparableType =>
    /\ pc = "records" =>
         \A k \in 1..(Len(working_node_stack) - 1) :
           partial_cmp(working_node_stack[k].level,
                       working_node_stack[k + 1].level) = "Less"
    /\ Returned =>
         /\ \A pr \in ParentPairs(Forest, 0) :
              pr[2] # 0 => partial_cmp(Level(pr[2]), Level(pr[1])) = "Less"
         /\ \A a, b \in 1..Len(Forest) :
              a < b => partial_cmp(Level(Forest[a].attributes),
                                   Level(Forest[b].attributes))
                         \in {"Greater", "Equal"}

(* a forest whose top level nodes' levels go down and stay equal, with *)
(* a child two levels down                                             *)
C23_Witness ==
  /\ Returned
  /\ OneComparableType
  /\ Len(Forest) >= 3
  /\ \E a \in 1..(Len(Forest) - 1) :
       partial_cmp(Level(Forest[a].attributes),
                   Level(Forest[a + 1].attributes)) = "Greater"
  /\ \E a \in 1..(Len(Forest) - 1) :
       partial_cmp(Level(Forest[a].attributes),
                   Level(Forest[a + 1].attributes)) = "Equal"
  /\ \E above \in UNION { AncestorsOf(i) : i \in 1..NumRecords } : Len(above) = 1

(* ---------------------------------------------------------------- *)
(* fold, then format_item_sync, as main calls them                  *)
(* (bin/fold_items.rs)                                              *)
(* ---------------------------------------------------------------- *)

MaxPipelineRecords ==
  3

(* the level key of the rules fixed in main *)
main_level_key ==
  "level"

(* the keys of a table that holds the level key and the keys of main's *)
(* output rules                                                       *)
pipeline_keys ==
  <<"level", "Part Number", "Part Name", "Quantity">>

(* the three Text levels and the Number 1.0 *)
PipelineLevels ==
  TextLevels \cup {Number(F64(10))}

(* n rows, each complete, cut after the level or empty; the id of a row *)
(* is "a" or the row's own                                              *)
PipelineRows(n) ==
  { [i \in 1..n |->
       SubSeq(<<l[i], IF own[i] THEN id_of_row(i) ELSE Text(<<97>>),
                name_of_row(i), Number(F64(20))>>, 1, len[i])] :
    l \in [1..n -> PipelineLevels],
    own \in [1..n -> BOOLEAN],
    len \in [1..n -> {0, 1, Len(pipeline_keys)}] }

(* complete tables with as many records as tests::single_root_multi_layer, *)
(* Text levels and a different id for every row                            *)
PipelineTestTables ==
  { [keys |-> pipeline_keys,
     records |-> [i \in 1..Len(multi_layer_levels) |->
                    <<l[i], id_of_row(i), name_of_row(i), Number(F64(20))>>]] :
    l \in [1..Len(multi_layer_levels) -> TextLevels] }

InitPipeline ==
  /\ \/ \E n \in 0..MaxPipelineRecords :
          flat_data \in [keys : {pipeline_keys}, records : PipelineRows(n)]
     \/ flat_data \in PipelineTestTables
     \/ \E n \in 0..MaxPipelineRecords :
          flat_data \in [keys : {item_keys}, records : IdRows(n)]
  /\ level_key = main_level_key
  /\ rules = main_rules
  /\ pc = "fold"
  /\ level_key_index = 0
  /\ record_index = 1
  /\ working_node_stack = <<>>
  /\ top_level_nodes = <<>>
  /\ result = Pending
  /\ stack_after_push = <<>>
  /\ folded_data = FoldedData_default
  /\ indices = AttributeIndices(0, 0, None)
  /\ pending = <<>>
  /\ boms = <<>>
  /\ bom_entries = <<>>
  /\ formatted = Pending

(* lines 51-54 of main: the forest transform returned is unwrapped and *)
(* handed to format_item_sync with the output rules                    *)
MainFormat ==
  /\ pc = "done"
  /\ result.kind = "Ok"
  /\ folded_data' = result.value
  /\ pc' = "format"
  /\ UNCHANGED <<flat_data, rules, indices, pending, boms, bom_entries,
                 formatted>>
  /\ UNCHANGED fold_vars

(* lines 51 and 54 of main: unwrap panics on the error, or with the *)
(* panic, of transform or of format_item_sync                       *)
MainUnwrapPanics ==
  /\ \/ pc = "done" /\ result.kind # "Ok"
     \/ pc = "formatted" /\ formatted.kind # "Ok"
  /\ pc' = "panicked"
  /\ UNCHANGED <<flat_data, format_vars, fold_vars>>

NextPipeline ==
  \/ FoldEmpty
  \/ FoldKeyNotFound
  \/ FoldKeyFound
  \/ FoldRecordOutOfBounds
  \/ FoldRecord
  \/ FoldReturn
  \/ MainFormat
  \/ MainUnwrapPanics
  \/ FormatIndicesNotFound
  \/ FormatIndices
  \/ FormatVisit
  \/ FormatVisitFails
  \/ FormatSort
  \/ FormatDedup

SpecPipeline ==
  InitPipeline /\ [][NextPipeline]_vars

(* ---------------------------------------------------------------- *)
(* Reading the records returned for a table                         *)
(* ---------------------------------------------------------------- *)

(* record i is followed by a record with a strictly greater level *)
NextDeeper(i) ==
  i < NumRecords /\ partial_cmp(Level(i), Level(i + 1)) = "Less"

AssemblyRecords ==
  Ascending({ i \in 1..NumRecords : NextDeeper(i) })

(* the records that have a parent in the folded forest, in input order *)
ChildRecords ==
  Ascending({ pr[1] : pr \in { q \in ParentPairs(folded_data.top_level_nodes, 0) :
                                 q[2] # 0 } })

(* every node was visited, the headers are not sorted yet *)
AllVisited ==
  pc = "visit" /\ pending = <<>>

(* C24: for a table folded and then formatted, with levels of one type, *)
(* mutually comparable: the headers pushed are those of the records     *)
(* followed by a record with a strictly greater level, in input order,  *)
(* and the returned headers carry their ids; the entry of a record that *)
(* has a parent is "sub-bom" when the next record's level is strictly   *)
(* greater and "part" otherwise; there are as many entries as records   *)
(* less the top level nodes.                                            *)
C24_AssemblyIffNextDeeper ==
  OneComparableType =>
    /\ AllVisited =>
         boms = [k \in 1..Len(AssemblyRecords) |-> HeaderOf(Row(AssemblyRecords[k]))]
    /\ Formatted =>
         /\ HeaderIds = { Row(i)[IdColumn] : i \in { j \in 1..NumRecords : NextDeeper(j) } }
         /\ Len(Entries) = NumRecords - Len(folded_data.top_level_nodes)
         /\ Len(Entries) = Len(ChildRecords)
         /\ \A k \in 1..Len(Entries) :
              /\ Entries[k].entry_id = Row(ChildRecords[k])[IdColumn]
              /\ Entries[k].entry_type =
                   IF NextDeeper(ChildRecords[k]) THEN "sub-bom" ELSE "part"

(* records returned for a table folded into several top level nodes: *)
(* two headers or more, a "sub-bom" and a "part" entry               *)
C24_Witness ==
  /\ Formatted
  /\ OneComparableType
  /\ Len(folded_data.top_level_nodes) >= 2
  /\ Len(Entries) = NumRecords - Len(folded_data.top_level_nodes)
  /\ Len(Headers) >= 2
  /\ \E k \in 1..Len(Entries) : Entries[k].entry_type = "sub-bom"
  /\ \E k \in 1..Len(Entries) : Entries[k].entry_type = "part"

====
